---- MODULE Spec2Model ----
(***************************************************************************)
(* The online BLAST tool call of the two NCBI web-API servers:             *)
(*   "stable"  StableOnlineBlastServer (tool blast_online, with the retry  *)
(*             loop runOnlineBlastWithRetry)        src/unnamed/part_001   *)
(*   "online"  OnlineBlastServer (tools blastn / blastp, no retry)         *)
(*                                             src/online_blast_server.js  *)
(* One behaviour is one tool call.  A step of the model is one stretch of  *)
(* the async handler between two awaits: it starts when a response or a    *)
(* timer arrives and runs the code up to the next await, return or throw   *)
(* (the catch block of the retry loop included).                           *)
(*                                                                         *)
(* Strings.  A query is a run-length encoded string: a sequence of runs    *)
(* [ch, n], n >= 1, so that the 2000 character limit is reached with short *)
(* sequences.  Characters are named: "LF" is a line feed, "SP" a space,    *)
(* "GT" the '>' sign, anything else a letter.  A response body is modelled *)
(* by the set of status markers that occur in it.                          *)
(***************************************************************************)
EXTENDS Integers, Sequences, FiniteSets, TLC

VARIABLES
    server,        \* which server class handles the call
    tool,          \* request.params.name
    args,          \* request.params.arguments
    pc,            \* where the handler is suspended
    attempt,       \* runOnlineBlastWithRetry: the for-loop variable
    lastError,     \* runOnlineBlastWithRetry: lastError (its message)
    submitParams,  \* runOnlineBlast: submitParams of the latest submission
    rid,           \* runOnlineBlast: rid
    attempts,      \* runOnlineBlast: the poll counter
    result,        \* the text the tool call returns
    inflight,      \* HTTP requests sent and not yet answered
    delays,        \* the backoff timers set so far, in order (ms)
    issued,        \* kinds of HTTP request issued so far in the call
    nSubmits,      \* number of submit requests issued so far in the call
    submitFails,   \* number of attempts that failed in the submit step
    lastPoll,      \* latest status response of this attempt and what the code made of it
    settled,       \* RIDs for which a status response carried READY or FAILED
    payload,       \* the body resultResponse.json() was called on in this attempt
    phase,         \* per-attempt state of the job as the code sees it
    lastSubmit,    \* the submit response of this attempt
    thrown,        \* message of the latest exception that left runOnlineBlast
    clock,         \* local servers: the value Date.now() returns
    files,         \* local servers: the temporary directory, file name -> content
    calls,         \* local servers: the state of each tool call under way
    proc,          \* local servers: one runCommand promise and its child process
    jobs,          \* concurrent blast_online calls: the locals of each call
    cancelled,     \* whether the caller has abandoned the call, and how
    elapsed,       \* milliseconds since the poll loop of the job was entered
    waited,        \* milliseconds the pending status request has taken so far
    pendings       \* status responses of the job after which the loop went on
                   \* (kept when the call returns the hits of the job)

vars == <<server, tool, args, pc, attempt, lastError, submitParams, rid, attempts,
          result, inflight, delays, issued, nSubmits, submitFails, lastPoll,
          settled, payload, phase, lastSubmit, thrown, clock, files, calls, proc,
          jobs, cancelled, elapsed, waited, pendings>>

\* the state of the servers that run BLAST as a subprocess
localVars == <<clock, files, calls, proc>>

\* the state of the blast_online calls that run side by side
concVars == <<jobs>>

\* the state of an online BLAST call
onlineVars ==
    <<server, tool, args, pc, attempt, lastError, submitParams, rid, attempts,
      result, inflight, delays, issued, nSubmits, submitFails, lastPoll,
      settled, payload, phase, lastSubmit, thrown, cancelled, elapsed, waited,
      pendings>>

----------------------------------------------------------------------------
(* Program constants *)

maxRetries == 3
BackoffUnit == 2000
MinQueryLen == 10
MaxQueryLen == 2000
StableMaxAttempts == 20
OnlineMaxAttempts == 30
StablePollInterval == 5000
StableFetchTimeout == 5000
StablePollCeiling == 240000
OnlinePollCeiling == 300000
OnlinePollInterval == 10000
StableHitlistCap == 10
StableSliceLimit == 5
OnlineSliceLimit == 10
StableDefaultMaxHits == 5
OnlineDefaultMaxHits == 10
SchemaMinHits == 1
StableSchemaMaxHits == 20
OnlineSchemaMaxHits == 50

(* Bounds of the model *)

NumCalls == 2            \* tool calls a server handles at the same time
SlowRequest == 60000     \* milliseconds a slow status request takes
MaxElapsed == 420000     \* the time in the poll loop is followed up to here
ConcPolls == 2           \* concurrent calls: the service settles a job by this poll
MaxChunks == 2           \* 'data' events of each output stream of a child process
MaxClock == 2            \* Date.now() takes the values 1..MaxClock

MaxPayloadHits == 11     \* hit records in a result payload: 0..MaxPayloadHits
HeaderLen == 3           \* length of the text of a FASTA header line

Servers == {"stable", "online"}

Min(a, b) == IF a <= b THEN a ELSE b

----------------------------------------------------------------------------
(* Strings *)

Run(c, n) == [ch |-> c, n |-> n]

IsLineTerminator(c) == c \in {"LF", "CR"}

IsWhitespace(c) == c \in {"LF", "CR", "SP", "TAB"}

RECURSIVE StrLen(_)
StrLen(s) == IF s = <<>> THEN 0 ELSE Head(s).n + StrLen(Tail(s))

\* canonical form: adjacent runs of the same character are one run
RECURSIVE Normalize(_)
Normalize(s) ==
    IF Len(s) <= 1 THEN s
    ELSE IF s[1].ch = s[2].ch
         THEN Normalize(<<Run(s[1].ch, s[1].n + s[2].n)>> \o SubSeq(s, 3, Len(s)))
         ELSE <<s[1]>> \o Normalize(Tail(s))

\* query.replace(/^>.*$/gm, ''): on every line that starts with '>', the text
\* up to (not including) the line terminator is removed.
RECURSIVE StripFrom(_, _, _)
StripFrom(s, atLineStart, inHeader) ==
    IF s = <<>> THEN <<>>
    ELSE LET r == Head(s) IN
         IF IsLineTerminator(r.ch)
         THEN <<r>> \o StripFrom(Tail(s), TRUE, FALSE)
         ELSE IF inHeader \/ (atLineStart /\ r.ch = "GT")
              THEN StripFrom(Tail(s), FALSE, TRUE)
              ELSE <<r>> \o StripFrom(Tail(s), FALSE, FALSE)

\* variant: the header lines are left in
StripHeadersNone(s) == s

StripHeaders(s) == StripFrom(s, TRUE, FALSE)

\* .replace(/\s/g, '')
StripWhitespace(s) == SelectSeq(s, LAMBDA r : ~IsWhitespace(r.ch))

CleanQuery(q) == Normalize(StripWhitespace(StripHeaders(q)))

----------------------------------------------------------------------------
(* Inputs of a call *)

Body(n) == IF n = 0 THEN <<>> ELSE <<Run("A", n)>>

HeaderLine == <<Run("GT", 1), Run("h", HeaderLen)>>

Plain(n) == Body(n)

\* a FASTA record: header line, then n sequence characters
WithHeader(n) == HeaderLine \o <<Run("LF", 1)>> \o Body(n)

\* n sequence characters broken by a space and a line feed, n >= 1
Wrapped(n) == <<Run("A", 1), Run("SP", 1), Run("LF", 1)>> \o Body(n - 1)

\* n characters with a '>' that is not at the start of a line, n >= 2
MidLineGT(n) == <<Run("A", 1), Run("GT", 1)>> \o Body(n - 2)

\* a header line only, without line terminator
HeaderOnly == <<Run("GT", 1), Run("A", MinQueryLen + 2)>>

QueryLens == {0, MinQueryLen - 1, MinQueryLen, MaxQueryLen, MaxQueryLen + 1}

Queries ==
    {Plain(n) : n \in QueryLens}
    \cup {WithHeader(n) : n \in {MinQueryLen - 1, MinQueryLen}}
    \cup {Wrapped(MinQueryLen - 1), MidLineGT(MinQueryLen), HeaderOnly}

Programs == {"blastn", "blastp"}

SchemaMaxHits(srv) ==
    IF srv = "stable" THEN StableSchemaMaxHits ELSE OnlineSchemaMaxHits

\* max_hits is <<>> when the caller leaves it out, <<n>> otherwise
MaxHitsInputs(srv) == {<<>>, <<SchemaMinHits>>, <<SchemaMaxHits(srv)>>}

\* a call without arguments (request.params.arguments is undefined)
NoArgs ==
    [given |-> FALSE, hasQuery |-> FALSE, query |-> <<>>, program |-> "blastn",
     max_hits |-> <<>>]

\* arguments without a query (query is undefined)
NoQuery ==
    [given |-> TRUE, hasQuery |-> FALSE, query |-> <<>>, program |-> "blastn",
     max_hits |-> <<>>]

\* The arguments of the calls checked: every query with the default program
\* and max_hits, and every program and max_hits with the shortest valid query.
\* hasQuery is FALSE when the caller leaves the query out (query is undefined),
\* given is FALSE when the caller sends no arguments at all.
Args(srv) ==
    [given : {TRUE}, hasQuery : {TRUE}, query : Queries, program : {"blastn"},
     max_hits : {<<>>}]
    \cup [given : {TRUE}, hasQuery : {TRUE}, query : {Plain(MinQueryLen)},
          program : Programs, max_hits : MaxHitsInputs(srv)]
    \cup {NoQuery, NoArgs}

\* The tools of a server.  "search" is its BLAST tool: blast_online of the
\* stable server, blastn / blastp of the online server (which passes the
\* tool name on as the program: args.program stands for it).  "unknown" is
\* any name the switch has no case for.
Tools(srv) ==
    IF srv = "stable" THEN {"search", "echo", "demo_blast", "unknown"}
    ELSE {"search", "echo", "unknown"}

\* the arguments checked with the tools that take no query
PlainArgs == {NoQuery, NoArgs}

\* destructuring defaults of runOnlineBlast
Database(a) == IF a.program = "blastn" THEN "nt" ELSE "nr"

DefaultMaxHits(srv) ==
    IF srv = "stable" THEN StableDefaultMaxHits ELSE OnlineDefaultMaxHits

MaxHitsArg(srv, a) ==
    IF a.max_hits = <<>> THEN DefaultMaxHits(srv) ELSE a.max_hits[1]

----------------------------------------------------------------------------
(* Responses of the remote service *)

\* a submit response: a transport error, or a status line and a body that
\* holds "RID = ..." or not
SubmitResponses ==
    {[err |-> TRUE, ok |-> FALSE, hasRid |-> FALSE]}
    \cup [err : {FALSE}, ok : BOOLEAN, hasRid : BOOLEAN]

\* the body of a status response: the status markers that occur in it
\* ({} is a body without any recognised status, such as an error page)
PollBodies == {{"Status=WAITING"}, {"Status=READY"}, {"Status=FAILED"}, {}}

PollResponses ==
    {[err |-> TRUE, body |-> {}]} \cup [err : {FALSE}, body : PollBodies]

\* the body of a result response, as resultResponse.json() yields it:
\*   "unparseable"  json() throws
\*   "null"         the JSON value null
\*   "noReport"     no BlastOutput2[0].report
\*   "noSearch"     a report without results.search (hits are irrelevant)
\*   "hits"         a report with search.hits; hits[i].hsp says whether the
\*                  hit has an hsps[0]
Hit(h) == [hsp |-> h]

GoodHits(n) == [i \in 1..n |-> Hit(TRUE)]

\* the payload sizes checked: around each server's slice limit
HitCounts ==
    {n \in {0, 1, StableSliceLimit, StableSliceLimit + 1,
            OnlineSliceLimit, OnlineSliceLimit + 1} : n <= MaxPayloadHits}

HitLists ==
    {GoodHits(n) : n \in HitCounts}
    \cup {<<Hit(FALSE)>>, <<Hit(TRUE), Hit(FALSE), Hit(TRUE)>>}

Payloads ==
    [kind : {"unparseable", "null", "noReport", "noSearch"}, hits : {<<>>}]
    \cup [kind : {"hits"}, hits : HitLists]

\* a result response: a transport error, an error status (with an error
\* page or with a report all the same), or a success status with a payload
ResultResponses ==
    {[err |-> TRUE, ok |-> FALSE, data |-> [kind |-> "unparseable", hits |-> <<>>]]}
    \cup [err : {FALSE}, ok : {FALSE},
          data : {[kind |-> "unparseable", hits |-> <<>>],
                  [kind |-> "hits", hits |-> GoodHits(1)]}]
    \cup [err : {FALSE}, ok : {TRUE}, data : Payloads]

----------------------------------------------------------------------------
(* The texts a call returns and the messages of the errors it throws.      *)
(* A text is [kind, err, entries]: err is the error message quoted in it,  *)
(* entries the "Hit i" blocks it holds: the number i of each block and the *)
(* labels of its lines.                                                    *)

Text(k) == [kind |-> k, err |-> "", entries |-> <<>>]

ErrText(k, e) == [kind |-> k, err |-> e, entries |-> <<>>]

NoResult == Text("")

\* what a stretch of the handler ends with:
\*   "throw"   an exception leaves runOnlineBlast (stable server only)
\*   "return"  runOnlineBlast returns a text
\*   other     the handler goes on
Throws(e) == [k |-> "throw", err |-> e, text |-> NoResult]

Returns(t) == [k |-> "return", err |-> "", text |-> t]

GoesOn(k) == [k |-> k, err |-> "", text |-> NoResult]

\* variant: the online server has no try/catch of its own either
RaiseThrows(srv, e) == Throws(e)

\* An error raised inside runOnlineBlast: the stable server lets it escape to
\* the retry loop; the online server's own try/catch turns it into a text.
Raise(srv, e) ==
    IF srv = "stable" THEN Throws(e)
    ELSE Returns(ErrText("searchFailed", e))

MaxAttempts(srv) == IF srv = "stable" THEN StableMaxAttempts ELSE OnlineMaxAttempts

\* variant: the loop polls again at once
PollIntervalNone(srv) == 0

\* the delay of the timer the poll loop awaits before every status request
PollInterval(srv) == IF srv = "stable" THEN StablePollInterval ELSE OnlinePollInterval

\* variant: the stable server lists as many hits as the online server
SliceLimitWide(srv) == OnlineSliceLimit

\* the number of hits formatBlastResults lists at most
SliceLimit(srv) == IF srv = "stable" THEN StableSliceLimit ELSE OnlineSliceLimit

----------------------------------------------------------------------------
(* runOnlineBlast, stretch by stretch *)

\* variant: a cleaned query of exactly the upper limit is rejected as well
ValidateQueryStrict(srv, a) ==
    IF ~a.given THEN Throws("TypeError")
    ELSE IF ~a.hasQuery THEN Raise(srv, "TypeError")
    ELSE LET cleanQuery == CleanQuery(a.query) IN
         IF StrLen(cleanQuery) < MinQueryLen THEN Returns(Text("tooShort"))
         ELSE IF srv = "stable" /\ StrLen(cleanQuery) >= MaxQueryLen
              THEN Returns(Text("tooLong"))
              ELSE GoesOn("submit")

\* variant: the length checks throw instead of returning a text
ValidateQueryThrowing(srv, a) ==
    IF ~a.given THEN Throws("TypeError")
    ELSE IF ~a.hasQuery THEN Raise(srv, "TypeError")
    ELSE LET cleanQuery == CleanQuery(a.query) IN
         IF StrLen(cleanQuery) < MinQueryLen THEN Throws("Query too short")
         ELSE IF srv = "stable" /\ StrLen(cleanQuery) > MaxQueryLen
              THEN Throws("Query too long")
              ELSE GoesOn("submit")

\* the head of runOnlineBlast: the arguments are destructured (a TypeError
\* when there are none), the query is cleaned and its length checked
ValidateQuery(srv, a) ==
    IF ~a.given THEN Throws("TypeError")
    ELSE IF ~a.hasQuery THEN Raise(srv, "TypeError")
    ELSE LET cleanQuery == CleanQuery(a.query) IN
         IF StrLen(cleanQuery) < MinQueryLen THEN Returns(Text("tooShort"))
         ELSE IF srv = "stable" /\ StrLen(cleanQuery) > MaxQueryLen
              THEN Returns(Text("tooLong"))
              ELSE GoesOn("submit")

\* variant: the defaults and the program chosen are written back
ArgsOverwritten(a) == [a EXCEPT !.program = "blastp", !.max_hits = <<SchemaMinHits>>]

\* the arguments object after runOnlineBlast has destructured it: the
\* values and defaults go into constants of the function, the object the
\* retry loop passes again is left as it was
ArgsAfter(a) == a

HitlistSize(srv, a) ==
    IF srv = "stable" THEN Min(MaxHitsArg(srv, a), StableHitlistCap)
    ELSE MaxHitsArg(srv, a)

SubmitParams(srv, a) ==
    [PROGRAM |-> a.program, DATABASE |-> Database(a),
     QUERY |-> CleanQuery(a.query), HITLIST_SIZE |-> HitlistSize(srv, a)]

NoParams == [PROGRAM |-> "", DATABASE |-> "", QUERY |-> <<>>, HITLIST_SIZE |-> 0]

\* what the code does with the submit response
SubmitStep(srv, resp) ==
    IF resp.err THEN Raise(srv, "network:submit")
    ELSE IF srv = "stable" /\ ~resp.ok THEN Throws("HTTP status")
    ELSE IF ~resp.hasRid
         THEN IF srv = "stable" THEN Throws("Failed to get RID")
              ELSE Returns(Text("submitFailed"))
         ELSE GoesOn("rid")

\* the while condition of the poll loop
LoopCondition(srv, n) == n < MaxAttempts(srv)

\* variant: the loop body never reports a timeout
TimedOutNever(srv, n) == FALSE

\* variant: the timeout is reported one poll early
TimedOutEarly(srv, n) == n >= MaxAttempts(srv) - 1

\* the check that ends the loop body
TimedOut(srv, n) == n >= MaxAttempts(srv)

\* variant: any status line counts as ready
PollStatusLoose(body) == IF body # {} THEN "Ready" ELSE "Pending"

\* variant: a failed job is not detected
PollStatusNoFailed(body) == IF "Status=READY" \in body THEN "Ready" ELSE "Pending"

\* checkText.includes("Status=READY") / includes("Status=FAILED")
PollStatus(body) ==
    IF "Status=READY" \in body THEN "Ready"
    ELSE IF "Status=FAILED" \in body THEN "Failed"
    ELSE "Pending"

\* what the code does with the status response of poll number n
PollStep(srv, resp, n) ==
    IF resp.err THEN Raise(srv, "network:poll")
    ELSE LET st == PollStatus(resp.body) IN
         IF st = "Ready" THEN GoesOn("break")
         ELSE IF st = "Failed"
              THEN IF srv = "stable" THEN Throws("BLAST job failed on server")
                   ELSE Returns(Text("jobFailed"))
              ELSE IF TimedOut(srv, n)
                   THEN IF srv = "stable" THEN Throws("BLAST job timed out")
                        ELSE Returns(Text("timedOut"))
                   ELSE IF LoopCondition(srv, n) THEN GoesOn("sleep")
                        ELSE GoesOn("fallout")

\* the entries formatBlastResults writes: one "Hit i+1" block for each of the
\* first `limit` hits that has an hsps[0]
HitEntries(hits, limit) ==
    SelectSeq([i \in 1..Min(Len(hits), limit) |-> IF hits[i].hsp THEN i ELSE 0],
              LAMBDA i : i > 0)

\* the lines of a "Hit i" block
EntryLines(srv) ==
    IF srv = "stable" THEN {"ID", "Title", "Identity", "E-value", "Score"}
    ELSE {"Accession", "Description", "Identity", "E-value", "Bit score",
          "Alignment length", "Query coverage"}

formatBlastResults(srv, data) ==
    IF data.kind = "null"
    THEN Text("formatError")
    ELSE IF data.kind = "noReport"
    THEN Text("invalidFormat")
    ELSE IF data.kind = "noSearch" \/ Len(data.hits) = 0
    THEN Text("noHits")
    ELSE [kind |-> "hits", err |-> "",
          entries |-> LET shown == HitEntries(data.hits, SliceLimit(srv)) IN
                      [j \in 1..Len(shown) |->
                          [n |-> shown[j], lines |-> EntryLines(srv)]]]

\* the result response gets as far as resultResponse.json()
ReachesJson(srv, resp) == ~resp.err /\ (srv = "online" \/ resp.ok)

\* what the code does with the result response
ResultStep(srv, resp) ==
    IF resp.err THEN Raise(srv, "network:fetch")
    ELSE IF srv = "stable" /\ ~resp.ok THEN Throws("Failed to fetch results")
    ELSE IF resp.data.kind = "unparseable" THEN Raise(srv, "invalid json")
    ELSE Returns(formatBlastResults(srv, resp.data))

\* the switch of the CallToolRequestSchema handler, up to the first await
Dispatch(srv, t, a) ==
    IF t = "echo"
    THEN IF a.given THEN Returns(Text("echo")) ELSE Throws("TypeError")
    ELSE IF t = "demo_blast" /\ srv = "stable"
    THEN IF a.given THEN Returns(Text("demo")) ELSE Throws("TypeError")
    ELSE IF t = "search" THEN GoesOn("search")
    ELSE Throws("Unknown tool")

\* variant: the handler has no catch block
HandlerCatchNone(o) == o

\* the catch block of the handler: the error becomes the text "Error: ..."
HandlerCatch(o) ==
    IF o.k = "throw" THEN Returns(ErrText("handlerError", o.err)) ELSE o

\* variant: the catch block keeps the first error it saw
CaughtKeepFirst(prev, e) == IF prev = "" THEN e ELSE prev

\* the catch block of the retry loop: lastError = error
Caught(prev, e) == e

\* variant: the same delay before every attempt
BackoffDelayFixed(k) == BackoffUnit

\* delay before the next attempt
BackoffDelay(k) == k * BackoffUnit

\* variant: the loop gives up one attempt early
LoopTestShort(k) == k < maxRetries

\* variant: the loop makes one attempt more
LoopTestOneMore(k) == k <= maxRetries + 1

\* the test of the retry loop
LoopTest(k) == k <= maxRetries

\* variant: a wait follows the last attempt too
WaitsAfterEveryAttempt(k) == k <= maxRetries

\* the test that guards the backoff wait in the catch block
WaitsBeforeRetry(k) == k < maxRetries

----------------------------------------------------------------------------
(* HTTP requests in flight *)

Request(kind, id) == [kind |-> kind, rid |-> id]

\* fetch(...) is called: the request is on its way
Issue(reqs, kind, id) == reqs \cup {Request(kind, id)}

\* variant: the response is not awaited
SettleNothing(reqs, kind) == reqs

\* the awaited fetch(...) has settled: its response or its error is in
Settle(reqs, kind) == {r \in reqs : r.kind # kind}

NoSubmit == [seen |-> FALSE, err |-> FALSE, ok |-> FALSE, hasRid |-> FALSE]

NoPayload == [kind |-> "none", hits |-> <<>>]

NoPoll == [rid |-> 0, err |-> FALSE, body |-> {}, verdict |-> "None"]

IsTimeout(o) == o.err = "BLAST job timed out" \/ o.text.kind = "timedOut"

IsJobFailed(o) == o.err = "BLAST job failed on server" \/ o.text.kind = "jobFailed"

\* what the code made of a status response, read off what it did next
Verdict(o) ==
    IF o.k = "break" THEN "Ready"
    ELSE IF o.k \in {"sleep", "fallout"} \/ IsTimeout(o) THEN "Pending"
    ELSE IF IsJobFailed(o) THEN "Failed"
    ELSE "Error"

----------------------------------------------------------------------------
(* The servers that run BLAST as a subprocess:                             *)
(*   "hpc"   HighPerformanceBlastServer  src/high_performance_blast_server.js *)
(*   "gene"  BlastServer, the server.js written by                         *)
(*           src/run_gene_server_v2_updated.sh                             *)
(* A server handles several tool calls at a time: a call is suspended at   *)
(* its await while the handler of another call runs.  A temporary file is  *)
(* named by the value of Date.now() at the moment the name is made; what   *)
(* a file holds is modelled by the call that wrote it.                     *)

LocalServers == {"hpc", "gene"}

Calls == 1..NumCalls

Names == 1..MaxClock

\* "search" is the BLAST tool: blast_local of hpc, blastn / blastp of gene
LocalTools(srv) ==
    IF srv = "hpc"
    THEN {"search", "list_databases", "makeblastdb", "download_database", "unknown"}
    ELSE {"search", "echo", "unknown"}

\* arguments with everything the tool needs
OkArgs ==
    [given |-> TRUE, hasQuery |-> TRUE, query |-> Plain(MinQueryLen),
     program |-> "blastn", max_hits |-> <<>>]

\* hasQuery stands for the one argument the tool cannot do without: the
\* query of a search, the (existing) input_file of makeblastdb
LocalArgs == {OkArgs, NoQuery, NoArgs}

\* the calls checked: every tool with the arguments its code looks at
LocalInputs(srv) ==
    {inp \in [tool : LocalTools(srv), args : LocalArgs] :
        \/ inp.tool \in {"search", "makeblastdb"}
        \/ inp.tool \in {"echo", "download_database"} /\ inp.args # NoQuery
        \/ inp.args = NoArgs}

\* what the child process does, as runCommand sees it: the 'error' event
\* (the command cannot be started), the 'close' event with an exit code,
\* the output and the kind of message on stderr, or the timer going off
Event(ev, code, out, msg) == [ev |-> ev, code |-> code, out |-> out, msg |-> msg]

NoEvent == Event("none", 0, "", "")

CommandEvents ==
    {Event("error", 0, "", "ENOENT"),
     Event("close", 0, "", ""),
     Event("close", 0, "rows", ""),
     Event("close", 1, "", "Database"),
     Event("close", 1, "", "other"),
     Event("timeout", 0, "", "")}

\* the events checked for the commands of the other tools
AuxEvents ==
    {Event("close", 0, "", ""), Event("close", 1, "", "other"),
     Event("timeout", 0, "", "")}

\* writeFileSync succeeds or throws (the code of the error it throws)
WriteOutcomes == {"ok", "EACCES"}

\* runCommand: how the promise settles on the first event
RunCommand(srv, event) ==
    IF event.ev = "error" THEN Throws(event.msg)
    ELSE IF event.ev = "timeout" THEN Throws("timed out")
    ELSE IF event.code # 0
         THEN Throws(IF srv = "hpc" /\ event.msg = "" THEN "Command failed with code"
                     ELSE event.msg)
         ELSE GoesOn("resolve")

\* the text made from the output of the BLAST command
FormatLocal(event) == IF event.out = "" THEN Text("noHits") ELSE Text("hits")

\* the catch block of runBlast / runLocalBlast
LocalCatch(srv, err) ==
    IF err = "ENOENT" THEN Returns(Text("notFound"))
    ELSE IF srv = "hpc" /\ err = "Database" THEN GoesOn("list")
    ELSE Throws(err)

\* runBlast / runLocalBlast from the settling of runCommand to the end of
\* the try statement
BlastOutcome(srv, event) ==
    LET r == RunCommand(srv, event) IN
    IF r.k = "throw" THEN LocalCatch(srv, r.err) ELSE Returns(FormatLocal(event))

\* unlinkSync(queryFile): the file is removed, or the call throws
UnlinkOutcomes(fs, name) == IF fs[name] = 0 THEN {"failed"} ELSE {"removed", "failed"}

\* variant: an error of unlinkSync leaves the finally block
FinallyPropagates(o, u) == IF u = "failed" THEN Throws("unlink failed") ELSE o

\* the finally block: try { unlinkSync(queryFile) } catch (e) {}
Finally(o, u) == o

\* the tools of the local servers other than the search, up to the first
\* await
LocalDispatch(srv, t, a) ==
    IF t = "search" THEN GoesOn("search")
    ELSE IF t = "echo" /\ srv = "gene"
    THEN IF a.given THEN Returns(Text("echo")) ELSE Throws("TypeError")
    ELSE IF t = "list_databases" /\ srv = "hpc" THEN GoesOn("aux")
    ELSE IF t = "makeblastdb" /\ srv = "hpc"
    THEN IF ~a.given THEN Throws("TypeError")
         ELSE IF ~a.hasQuery THEN Returns(Text("inputNotFound"))
         ELSE GoesOn("aux")
    ELSE IF t = "download_database" /\ srv = "hpc"
    THEN IF ~a.given THEN Throws("TypeError") ELSE GoesOn("aux")
    ELSE Throws("Unknown tool")

\* makeBlastDb, listDatabases, downloadDatabase: the try/catch around their
\* runCommand turns either way of settling into a text
AuxOutcome(srv, event) ==
    LET r == RunCommand(srv, event) IN
    IF r.k = "throw" THEN Returns(ErrText("auxFailed", r.err))
    ELSE Returns(Text("auxDone"))

\* the promise of runCommand is pending
NoOutcome == [k |-> "pending", stdout |-> 0, stderr |-> 0, msg |-> ""]

\* no command has been started
NoProc ==
    [child |-> "none", code |-> 0, errored |-> FALSE, timeout |-> "none",
     kills |-> 0, stdout |-> 0, stderr |-> 0, outcome |-> NoOutcome]

IdleCall ==
    [pc |-> "idle", tool |-> "", queryFile |-> 0, wrote |-> FALSE,
     readOf |-> 0, event |-> NoEvent, cleanup |-> "none", result |-> NoResult]

\* no local call has arrived
LocalIdle ==
    /\ clock = 1
    /\ files = [n \in Names |-> 0]
    /\ calls = [c \in Calls |-> IdleCall]
    /\ proc = NoProc

\* the handler of call c returns (or rejects): rec is the state of the call
\* at that point, o what comes out of the switch; the locals of runBlast
\* and the child process are gone
Answer(rec, o) ==
    LET h == HandlerCatch(o) IN
    [rec EXCEPT !.pc = IF h.k = "return" THEN "done" ELSE "rejected",
                !.result = h.text, !.queryFile = 0, !.readOf = 0]

\* the try statement of runBlast ends with o: the finally block removes the
\* query file, then the handler answers
Cleanup(c, rec, o) ==
    \E u \in UnlinkOutcomes(files, rec.queryFile) :
        /\ files' = IF u = "removed" THEN [files EXCEPT ![rec.queryFile] = 0]
                     ELSE files
        /\ calls' = [calls EXCEPT ![c] = Answer([rec EXCEPT !.cleanup = u],
                                                 Finally(o, u))]

\* call c arrives: the handler runs up to its first await
LocalCall(c) ==
    /\ server \in LocalServers
    /\ calls[c].pc = "idle"
    /\ \E inp \in LocalInputs(server), w \in WriteOutcomes :
         LET a == inp.args
             o == LocalDispatch(server, inp.tool, a)
             rec == [calls[c] EXCEPT !.tool = inp.tool]
             named == [rec EXCEPT !.queryFile = clock]
         IN
         IF o.k = "aux"
         THEN /\ calls' = [calls EXCEPT ![c] = [rec EXCEPT !.pc = "aux"]]
              /\ files' = files
         ELSE IF o.k # "search" \/ ~a.given
         THEN /\ calls' = [calls EXCEPT ![c] =
                              Answer(rec, IF o.k = "search" THEN Throws("TypeError")
                                          ELSE o)]
              /\ files' = files
         ELSE IF ~a.hasQuery
         THEN Cleanup(c, named, LocalCatch(server, "TypeError"))
         ELSE IF w # "ok"
         THEN Cleanup(c, named, LocalCatch(server, w))
         ELSE /\ files' = [files EXCEPT ![clock] = c]
              /\ calls' = [calls EXCEPT ![c] =
                              [named EXCEPT !.pc = "blast", !.wrote = TRUE]]
    /\ clock' = clock
    /\ UNCHANGED <<onlineVars, concVars, proc>>

\* the BLAST process of call c opens its query file
ChildReads(c) ==
    /\ calls[c].pc = "blast"
    /\ calls[c].readOf = 0
    /\ calls' = [calls EXCEPT ![c].readOf =
                    IF files[calls[c].queryFile] = 0 THEN -1
                    ELSE files[calls[c].queryFile]]
    /\ UNCHANGED <<clock, files>>
    /\ UNCHANGED <<onlineVars, concVars, proc>>

\* runCommand of the BLAST process of call c settles; a process that was
\* never started has read nothing, one that ends well has read a query
ChildEvent(c) ==
    /\ calls[c].pc = "blast"
    /\ \E event \in CommandEvents :
         /\ event.ev = "error" => calls[c].readOf = 0
         /\ (event.ev = "close" /\ event.code = 0) => calls[c].readOf > 0
         /\ LET o == BlastOutcome(server, event)
                rec == [calls[c] EXCEPT !.event = event]
            IN
            IF o.k = "list"
            THEN /\ calls' = [calls EXCEPT ![c] = [rec EXCEPT !.pc = "list"]]
                 /\ files' = files
            ELSE Cleanup(c, rec, o)
    /\ clock' = clock
    /\ UNCHANGED <<onlineVars, concVars, proc>>

\* hpc: listDatabases, awaited in the catch block, has returned its text
ListDone(c) ==
    /\ calls[c].pc = "list"
    /\ Cleanup(c, calls[c], Returns(Text("dbNotFound")))
    /\ clock' = clock
    /\ UNCHANGED <<onlineVars, concVars, proc>>

\* the command of a tool other than the search settles
AuxDone(c) ==
    /\ calls[c].pc = "aux"
    /\ \E event \in AuxEvents :
         calls' = [calls EXCEPT ![c] = Answer(calls[c], AuxOutcome(server, event))]
    /\ UNCHANGED <<clock, files>>
    /\ UNCHANGED <<onlineVars, concVars, proc>>

\* a millisecond passes
Tick ==
    /\ server \in LocalServers
    /\ clock < MaxClock
    /\ clock' = clock + 1
    /\ UNCHANGED <<files, calls>>
    /\ UNCHANGED <<onlineVars, concVars, proc>>

\* the locals of a blast_online call that has not arrived
IdleJob ==
    [pc |-> "idle", attempt |-> 0, lastError |-> "", rid |-> 0, attempts |-> 0,
     result |-> NoResult]

\* no blast_online call has arrived
ConcIdle ==
    /\ jobs = [c \in Calls |-> IdleJob]

\* no online call is under way in a local server
NoOnlineCall ==
    /\ server \in LocalServers
    /\ tool = ""
    /\ args = NoArgs
    /\ pc = "local"
    /\ attempt = 0
    /\ lastError = ""
    /\ submitParams = NoParams
    /\ rid = 0
    /\ attempts = 0
    /\ result = NoResult
    /\ inflight = {}
    /\ delays = <<>>
    /\ issued = {}
    /\ nSubmits = 0
    /\ submitFails = 0
    /\ lastPoll = NoPoll
    /\ settled = {}
    /\ payload = NoPayload
    /\ phase = "Idle"
    /\ lastSubmit = NoSubmit
    /\ thrown = ""
    /\ cancelled = "no"
    /\ elapsed = 0
    /\ waited = 0
    /\ pendings = 0

LocalInit ==
    /\ NoOnlineCall
    /\ LocalIdle
    /\ ConcIdle

LocalNext ==
    \/ \E c \in Calls : LocalCall(c)
    \/ \E c \in Calls : ChildReads(c)
    \/ \E c \in Calls : ChildEvent(c)
    \/ \E c \in Calls : ListDone(c)
    \/ \E c \in Calls : AuxDone(c)
    \/ Tick

LocalSpec == LocalInit /\ [][LocalNext]_vars

----------------------------------------------------------------------------
(* runCommand, event by event.  The promise executor spawns the child,     *)
(* registers the 'data', 'close' and 'error' handlers and sets the timer;  *)
(* after that each event runs its handler.  stdout and stderr are the      *)
(* numbers of chunks collected; the exit code -1 stands for null (the      *)
(* child was ended by a signal).                                           *)

ExitCodes == {0, 1, -1}

\* resolve({ stdout, stderr })
Resolved(out, err) == [k |-> "resolve", stdout |-> out, stderr |-> err, msg |-> ""]

\* reject(new Error(msg)), reject(error)
Rejected(msg) == [k |-> "reject", stdout |-> 0, stderr |-> 0, msg |-> msg]

\* resolve / reject of a promise: the first call settles it, later calls
\* do nothing
SettleOnce(now, o) == IF now = NoOutcome THEN o ELSE now

\* variant: the handlers leave the timer alone
ClearTimeoutNot(t) == t

\* clearTimeout(timeout)
ClearTimeout(t) == IF t = "armed" THEN "cleared" ELSE t

\* the message of the error the 'close' handler rejects with
CloseMessage(srv, err) ==
    IF srv = "hpc"
    THEN IF err > 0 THEN "stderr" ELSE "Command failed with code"
    ELSE "BLAST failed"

\* the 'close' handler
OnClose(srv, p, code) ==
    [p EXCEPT !.child = "closed", !.code = code,
              !.timeout = ClearTimeout(p.timeout),
              !.outcome = SettleOnce(p.outcome,
                              IF code # 0 THEN Rejected(CloseMessage(srv, p.stderr))
                              ELSE Resolved(p.stdout, p.stderr))]

\* the 'error' handler
OnError(p) ==
    [p EXCEPT !.errored = TRUE,
              !.timeout = ClearTimeout(p.timeout),
              !.outcome = SettleOnce(p.outcome, Rejected("error"))]

\* the callback of the timer: process.kill(); reject(...)
OnTimeout(p) ==
    [p EXCEPT !.timeout = "fired", !.kills = p.kills + 1,
              !.outcome = SettleOnce(p.outcome, Rejected("timed out"))]

\* the child writes a chunk to stdout or stderr
CmdData ==
    /\ proc.child = "running"
    /\ \/ proc.stdout < MaxChunks /\ proc' = [proc EXCEPT !.stdout = proc.stdout + 1]
       \/ proc.stderr < MaxChunks /\ proc' = [proc EXCEPT !.stderr = proc.stderr + 1]
    /\ UNCHANGED <<onlineVars, concVars, clock, files, calls>>

\* the child has ended and its streams are closed
CmdClose ==
    /\ proc.child = "running"
    /\ \E code \in ExitCodes : proc' = OnClose(server, proc, code)
    /\ UNCHANGED <<onlineVars, concVars, clock, files, calls>>

\* the child could not be started, or could not be killed
CmdError ==
    /\ proc.child = "running"
    /\ ~proc.errored
    /\ proc' = OnError(proc)
    /\ UNCHANGED <<onlineVars, concVars, clock, files, calls>>

\* the timer goes off (a cleared timer never does)
CmdTimeout ==
    /\ proc.timeout = "armed"
    /\ proc' = OnTimeout(proc)
    /\ UNCHANGED <<onlineVars, concVars, clock, files, calls>>

\* runCommand has returned its promise: the child is spawned and the timer set
CommandInit ==
    /\ NoOnlineCall
    /\ ConcIdle
    /\ clock = 1
    /\ files = [n \in Names |-> 0]
    /\ calls = [c \in Calls |-> IdleCall]
    /\ proc = [NoProc EXCEPT !.child = "running", !.timeout = "armed"]

CommandNext ==
    \/ CmdData
    \/ CmdClose
    \/ CmdError
    \/ CmdTimeout

CommandSpec == CommandInit /\ [][CommandNext]_vars

----------------------------------------------------------------------------
(* Several blast_online calls of the stable server side by side.  The      *)
(* handler is an async function: every call has an activation of its own  *)
(* of runOnlineBlastWithRetry (attempt, lastError) and of runOnlineBlast   *)
(* (rid, attempts), and the calls take turns at their awaits.  The calls   *)
(* talk to one service, which gives every job an identifier of its own.   *)

\* variant: the locals are kept in one place for all calls
FrameShared(c) == 1

\* the activation record the code of call c reads and writes
Frame(c) == c

\* the responses checked with concurrent calls
ConcSubmitResponses == {r \in SubmitResponses : ~r.err /\ r.ok /\ r.hasRid}

ConcPollResponses(n) ==
    {r \in PollResponses :
        /\ ~r.err /\ r.body # {}
        /\ n >= ConcPolls => r.body # {"Status=WAITING"}}

ConcResultResponses ==
    {r \in ResultResponses : ~r.err /\ r.ok /\ r.data = [kind |-> "hits", hits |-> GoodHits(1)]}

\* runOnlineBlast of a call ends with o: a return ends the call, a throw
\* lands in the catch block of its retry loop
JobEnds(j, o) ==
    IF o.k = "return"
    THEN [j EXCEPT !.pc = "done", !.result = o.text, !.rid = 0, !.attempts = 0]
    ELSE IF WaitsBeforeRetry(j.attempt)
         THEN [j EXCEPT !.pc = "backoff", !.lastError = Caught(j.lastError, o.err),
                        !.rid = 0, !.attempts = 0]
         ELSE [j EXCEPT !.pc = "loop", !.lastError = Caught(j.lastError, o.err),
                        !.attempt = j.attempt + 1, !.rid = 0, !.attempts = 0]

\* call c took a step that leaves its locals as j
JobStep(c, j) ==
    /\ jobs' = [jobs EXCEPT ![Frame(c)] = j]
    /\ UNCHANGED <<onlineVars, localVars>>

\* call c arrives: runOnlineBlastWithRetry starts its loop
JobCall(c) ==
    /\ server = "stable" /\ pc = "conc"
    /\ jobs[Frame(c)].pc = "idle"
    /\ JobStep(c, [jobs[Frame(c)] EXCEPT !.pc = "loop", !.attempt = 1])

\* the loop test; runOnlineBlast up to the submit request, or the final text
JobAttempt(c) ==
    LET j == jobs[Frame(c)] IN
    /\ j.pc = "loop"
    /\ IF LoopTest(j.attempt)
       THEN LET o == ValidateQuery(server, OkArgs) IN
            JobStep(c, IF o.k = "submit" THEN [j EXCEPT !.pc = "await_submit"]
                       ELSE JobEnds(j, o))
       ELSE JobStep(c, [j EXCEPT !.pc = "done",
                                 !.result = ErrText("final", j.lastError)])

\* the request identifier the service puts into a submit response: one that
\* no call holds (the least such; an identifier no call holds any longer is
\* not told apart from a new one)
FreshRid ==
    CHOOSE n \in 1..NumCalls :
        /\ \A c \in Calls : jobs[c].rid # n
        /\ \A m \in 1..(n - 1) : \E c \in Calls : jobs[c].rid = m

\* the submit response of call c arrives with the identifier of the job
JobSubmitResponse(c) ==
    LET j == jobs[Frame(c)] IN
    /\ j.pc = "await_submit"
    /\ \E resp \in ConcSubmitResponses :
         LET o == SubmitStep(server, resp) IN
         JobStep(c, IF o.k = "rid"
                    THEN [j EXCEPT !.pc = "poll_sleep", !.rid = FreshRid,
                                   !.attempts = 0]
                    ELSE JobEnds(j, o))

\* the poll interval of call c has passed
JobPollTimer(c) ==
    LET j == jobs[Frame(c)] IN
    /\ j.pc = "poll_sleep"
    /\ JobStep(c, [j EXCEPT !.pc = "await_poll", !.attempts = j.attempts + 1])

\* the status response of call c arrives
JobPollResponse(c) ==
    LET j == jobs[Frame(c)] IN
    /\ j.pc = "await_poll"
    /\ \E resp \in ConcPollResponses(j.attempts) :
         LET o == PollStep(server, resp, j.attempts) IN
         JobStep(c, IF o.k \in {"break", "fallout"} THEN [j EXCEPT !.pc = "await_result"]
                    ELSE IF o.k = "sleep" THEN [j EXCEPT !.pc = "poll_sleep"]
                    ELSE JobEnds(j, o))

\* the result response of call c arrives
JobResultResponse(c) ==
    LET j == jobs[Frame(c)] IN
    /\ j.pc = "await_result"
    /\ \E resp \in ConcResultResponses :
         JobStep(c, JobEnds(j, ResultStep(server, resp)))

\* the backoff delay of call c has passed
JobBackoffTimer(c) ==
    LET j == jobs[Frame(c)] IN
    /\ j.pc = "backoff"
    /\ JobStep(c, [j EXCEPT !.pc = "loop", !.attempt = j.attempt + 1])

\* a step of call c
StepOf(c) ==
    \/ JobCall(c)
    \/ JobAttempt(c)
    \/ JobSubmitResponse(c)
    \/ JobPollTimer(c)
    \/ JobPollResponse(c)
    \/ JobResultResponse(c)
    \/ JobBackoffTimer(c)

ConcInit ==
    /\ server = "stable"
    /\ tool = "search"
    /\ args = OkArgs
    /\ pc = "conc"
    /\ attempt = 0
    /\ lastError = ""
    /\ submitParams = NoParams
    /\ rid = 0
    /\ attempts = 0
    /\ result = NoResult
    /\ inflight = {}
    /\ delays = <<>>
    /\ issued = {}
    /\ nSubmits = 0
    /\ submitFails = 0
    /\ lastPoll = NoPoll
    /\ settled = {}
    /\ payload = NoPayload
    /\ phase = "Idle"
    /\ lastSubmit = NoSubmit
    /\ thrown = ""
    /\ cancelled = "no"
    /\ elapsed = 0
    /\ waited = 0
    /\ pendings = 0
    /\ LocalIdle
    /\ ConcIdle

ConcNext ==
    \/ \E c \in Calls : JobCall(c)
    \/ \E c \in Calls : JobAttempt(c)
    \/ \E c \in Calls : JobSubmitResponse(c)
    \/ \E c \in Calls : JobPollTimer(c)
    \/ \E c \in Calls : JobPollResponse(c)
    \/ \E c \in Calls : JobResultResponse(c)
    \/ \E c \in Calls : JobBackoffTimer(c)

ConcSpec == ConcInit /\ [][ConcNext]_vars

----------------------------------------------------------------------------
(* The state machine *)

\* the handler of an online server has been entered and nothing has happened yet
OnlineIdle ==
    /\ pc = "call"
    /\ attempt = 0
    /\ lastError = ""
    /\ submitParams = NoParams
    /\ rid = 0
    /\ attempts = 0
    /\ result = NoResult
    /\ inflight = {}
    /\ delays = <<>>
    /\ issued = {}
    /\ nSubmits = 0
    /\ submitFails = 0
    /\ lastPoll = NoPoll
    /\ settled = {}
    /\ payload = NoPayload
    /\ phase = "Idle"
    /\ lastSubmit = NoSubmit
    /\ thrown = ""
    /\ cancelled = "no"
    /\ elapsed = 0
    /\ waited = 0
    /\ pendings = 0
    /\ LocalIdle
    /\ ConcIdle

\* a call of the BLAST tool
Init ==
    /\ server \in Servers
    /\ tool = "search"
    /\ args \in Args(server)
    /\ OnlineIdle

\* a call of any tool
HandlerInit ==
    /\ server \in Servers
    /\ tool \in Tools(server)
    /\ args \in (IF tool = "search" THEN Args(server) ELSE PlainArgs)
    /\ OnlineIdle

\* the handler goes on to its next await
GoOn(next) ==
    /\ pc' = next
    /\ UNCHANGED <<result, lastError, delays, attempt, thrown>>

\* what comes out of the switch passes the catch block of the handler: the
\* handler returns a text, or rejects when an error is left
Respond(o) ==
    LET h == HandlerCatch(o) IN
    /\ pc' = IF h.k = "return" THEN "done" ELSE "rejected"
    /\ result' = h.text

\* runOnlineBlast returns o.text, or throws o.err: into the catch block of
\* runOnlineBlastWithRetry (stable server) or straight into the handler
\* (online server); either way its local variables are gone
EndStretch(o) ==
    /\ rid' = 0
    /\ attempts' = 0
    /\ pendings' = IF o.k = "return" /\ o.text.kind = "hits" THEN pendings ELSE 0
    /\ IF o.k = "return" \/ server # "stable"
       THEN /\ Respond(o)
            /\ thrown' = IF o.k = "throw" THEN o.err ELSE thrown
            /\ UNCHANGED <<lastError, delays, attempt>>
       ELSE /\ lastError' = Caught(lastError, o.err)
            /\ thrown' = o.err
            /\ result' = result
            /\ IF WaitsBeforeRetry(attempt)
               THEN /\ pc' = "backoff"
                    /\ delays' = Append(delays, BackoffDelay(attempt))
                    /\ attempt' = attempt
               ELSE /\ pc' = "loop"
                    /\ delays' = delays
                    /\ attempt' = attempt + 1

\* the CallToolRequestSchema handler dispatches the call
CallTool ==
    /\ pc = "call"
    /\ LET o == Dispatch(server, tool, args) IN
       IF o.k = "search"
       THEN /\ attempt' = 1
            /\ pc' = IF server = "stable" THEN "loop" ELSE "attempt"
            /\ result' = result
       ELSE /\ attempt' = attempt
            /\ Respond(o)
    /\ UNCHANGED <<server, tool, args, pendings, cancelled, elapsed, waited, concVars, localVars, lastSubmit, thrown, lastError, submitParams,
                   rid, attempts, inflight, delays, issued, nSubmits, submitFails,
                   lastPoll, settled, payload, phase>>

\* runOnlineBlastWithRetry: the loop test, and the return after the loop
RetryLoop ==
    /\ pc = "loop"
    /\ IF LoopTest(attempt)
       THEN pc' = "attempt" /\ result' = result
       ELSE pc' = "done" /\ result' = ErrText("final", lastError)
    /\ UNCHANGED <<server, tool, args, pendings, cancelled, elapsed, waited, concVars, localVars, lastSubmit, thrown, attempt, lastError, submitParams, rid, attempts,
                   inflight, delays, issued, nSubmits, submitFails, lastPoll,
                   settled, payload, phase>>

\* runOnlineBlast from its call to the submit request
StartAttempt ==
    /\ pc = "attempt"
    /\ phase' = "Idle"
    /\ lastPoll' = NoPoll
    /\ lastSubmit' = NoSubmit
    /\ payload' = NoPayload
    /\ LET o == ValidateQuery(server, args) IN
       IF o.k = "submit"
       THEN /\ submitParams' = SubmitParams(server, args)
            /\ UNCHANGED <<rid, attempts, pendings>>
            /\ inflight' = Issue(inflight, "submit", 0)
            /\ issued' = issued \cup {"submit"}
            /\ nSubmits' = nSubmits + 1
            /\ GoOn("await_submit")
       ELSE /\ EndStretch(o)
            /\ UNCHANGED <<submitParams, inflight, issued, nSubmits>>
    /\ args' = ArgsAfter(args)
    /\ UNCHANGED <<server, tool, cancelled, elapsed, waited, concVars, localVars, submitFails, settled>>

\* the submit response arrives: the RID is parsed and the poll loop entered.
\* The service gives every submission a RID of its own: the RID of the n-th
\* submission of the call is n.
SubmitResponse ==
    /\ pc = "await_submit"
    /\ \E resp \in SubmitResponses :
         LET o == SubmitStep(server, resp) IN
         /\ lastSubmit' = [seen |-> TRUE, err |-> resp.err, ok |-> resp.ok,
                           hasRid |-> resp.hasRid]
         /\ IF o.k = "rid"
            THEN /\ rid' = nSubmits
                 /\ attempts' = 0
                 /\ pendings' = 0
                 /\ phase' = "Submitted"
                 /\ submitFails' = submitFails
                 /\ IF LoopCondition(server, 0)
                    THEN /\ inflight' = Settle(inflight, "submit")
                         /\ issued' = issued
                         /\ GoOn("poll_sleep")
                    ELSE /\ inflight' = Issue(Settle(inflight, "submit"), "fetch", nSubmits)
                         /\ issued' = issued \cup {"fetch"}
                         /\ GoOn("await_result")
            ELSE /\ inflight' = Settle(inflight, "submit")
                 /\ submitFails' = submitFails + 1
                 /\ EndStretch(o)
                 /\ UNCHANGED <<phase, issued>>
    /\ UNCHANGED <<server, tool, args, cancelled, elapsed, waited, concVars, localVars, submitParams, nSubmits, lastPoll, settled, payload>>

\* the poll interval has passed: the status request is sent
PollTimer ==
    /\ pc = "poll_sleep"
    /\ attempts' = attempts + 1
    /\ inflight' = Issue(inflight, "poll", rid)
    /\ issued' = issued \cup {"poll"}
    /\ elapsed' = elapsed + PollInterval(server)
    /\ waited' = 0
    /\ phase' = "Polling"
    /\ GoOn("await_poll")
    /\ UNCHANGED <<server, tool, args, pendings, cancelled, concVars, localVars, lastSubmit, submitParams, rid, nSubmits, submitFails,
                   lastPoll, settled, payload>>

\* the status response arrives
PollResponse ==
    /\ pc = "await_poll"
    /\ \E resp \in PollResponses :
         LET o == PollStep(server, resp, attempts) IN
         /\ lastPoll' = [rid |-> rid, err |-> resp.err, body |-> resp.body,
                         verdict |-> Verdict(o)]
         /\ settled' = IF resp.body \cap {"Status=READY", "Status=FAILED"} # {}
                       THEN settled \cup {rid} ELSE settled
         /\ elapsed' = IF o.k = "sleep" THEN elapsed ELSE 0
         /\ waited' = 0
         /\ IF o.k \in {"break", "fallout"}
            THEN /\ inflight' = Issue(Settle(inflight, "poll"), "fetch", rid)
                 /\ issued' = issued \cup {"fetch"}
                 /\ phase' = IF o.k = "break" THEN "Ready" ELSE phase
                 /\ GoOn("await_result")
                 /\ UNCHANGED <<rid, attempts, pendings>>
            ELSE IF o.k = "sleep"
            THEN /\ inflight' = Settle(inflight, "poll")
                 /\ pendings' = pendings + 1
                 /\ GoOn("poll_sleep")
                 /\ UNCHANGED <<issued, phase, rid, attempts>>
            ELSE /\ inflight' = Settle(inflight, "poll")
                 /\ phase' = IF IsJobFailed(o) THEN "Failed"
                             ELSE IF IsTimeout(o) THEN "TimedOut" ELSE phase
                 /\ EndStretch(o)
                 /\ UNCHANGED issued
    /\ UNCHANGED <<server, tool, args, cancelled, concVars, localVars, lastSubmit, submitParams, nSubmits, submitFails, payload>>

\* the result response arrives: it is parsed and formatted
ResultResponse ==
    /\ pc = "await_result"
    /\ \E resp \in ResultResponses :
         LET o == ResultStep(server, resp) IN
         /\ inflight' = Settle(inflight, "fetch")
         /\ phase' = IF o.k = "return" /\ o.text.kind # "searchFailed"
                     THEN "Fetched" ELSE phase
         /\ payload' = IF ReachesJson(server, resp) THEN resp.data ELSE payload
         /\ EndStretch(o)
    /\ UNCHANGED <<server, tool, args, cancelled, elapsed, waited, concVars, localVars, lastSubmit, submitParams, issued, nSubmits, submitFails,
                   lastPoll, settled>>

\* the backoff delay has passed: the loop goes to its next iteration
BackoffTimer ==
    /\ pc = "backoff"
    /\ attempt' = attempt + 1
    /\ pc' = "loop"
    /\ UNCHANGED <<server, tool, args, pendings, cancelled, elapsed, waited, concVars, localVars, lastSubmit, thrown, lastError, submitParams, rid, attempts, result,
                   inflight, delays, issued, nSubmits, submitFails, lastPoll,
                   settled, payload, phase>>

Next ==
    \/ CallTool
    \/ RetryLoop
    \/ StartAttempt
    \/ SubmitResponse
    \/ PollTimer
    \/ PollResponse
    \/ ResultResponse
    \/ BackoffTimer

Spec == Init /\ [][Next]_vars

\* The call with every HTTP request answered (or failed) and every timer
\* fired in the end: a step that stays possible is taken.
FairSpec == Init /\ [][Next]_vars /\ WF_vars(Next)

----------------------------------------------------------------------------
(* The caller abandons the call.  The client cancels the request (the      *)
(* protocol layer aborts the signal it hands to the handler) or the        *)
(* server process receives SIGINT.  The handler takes the request only     *)
(* and no fetch is given a signal, so a cancelled request changes nothing  *)
(* in the call; the SIGINT handler closes the server and exits the         *)
(* process.                                                                *)

InProgress ==
    pc \in {"loop", "attempt", "await_submit", "poll_sleep", "await_poll",
            "await_result", "backoff"}

\* the client cancels the request of the call
Abandon ==
    /\ server \in Servers /\ InProgress
    /\ cancelled = "no"
    /\ cancelled' = "cancelled"
    /\ UNCHANGED <<server, tool, args, pc, attempt, lastError, submitParams, rid,
                   attempts, result, inflight, delays, issued, nSubmits,
                   submitFails, lastPoll, settled, payload, phase, lastSubmit,
                   thrown, elapsed, waited, pendings, concVars, localVars>>

\* SIGINT arrives: the handler starts to close the server
Sigint ==
    /\ server \in Servers /\ InProgress
    /\ cancelled = "no"
    /\ cancelled' = "sigint"
    /\ UNCHANGED <<server, tool, args, pc, attempt, lastError, submitParams, rid,
                   attempts, result, inflight, delays, issued, nSubmits,
                   submitFails, lastPoll, settled, payload, phase, lastSubmit,
                   thrown, elapsed, waited, pendings, concVars, localVars>>

\* the server is closed: process.exit(0) ends every call with its requests
ProcessExit ==
    /\ cancelled = "sigint"
    /\ pc # "exited"
    /\ pc' = "exited"
    /\ inflight' = {}
    /\ UNCHANGED <<server, tool, args, attempt, lastError, submitParams, rid,
                   attempts, result, delays, issued, nSubmits,
                   submitFails, lastPoll, settled, payload, phase, lastSubmit,
                   thrown, cancelled, elapsed, waited, pendings, concVars,
                   localVars>>

CancelNext ==
    \/ Next
    \/ Abandon
    \/ Sigint
    \/ ProcessExit

CancelSpec == Init /\ [][CancelNext]_vars

----------------------------------------------------------------------------
(* Time in the poll loop.  A status request takes time before its          *)
(* response arrives: the stable server passes timeout: 5000 to fetch, the  *)
(* online server passes nothing, so its requests take any time.            *)

\* the times a pending status request can take
RequestDurations(srv) ==
    IF srv = "stable" THEN {StableFetchTimeout} ELSE {SlowRequest}

\* the pending status request takes its time
Wait ==
    /\ pc = "await_poll"
    /\ waited = 0
    /\ \E d \in RequestDurations(server) :
         /\ elapsed + d <= MaxElapsed
         /\ waited' = d
         /\ elapsed' = elapsed + d
    /\ UNCHANGED <<server, tool, args, pc, attempt, lastError, submitParams, rid,
                   attempts, result, inflight, delays, issued, nSubmits,
                   submitFails, lastPoll, settled, payload, phase, lastSubmit,
                   thrown, cancelled, pendings, concVars, localVars>>

ClockNext ==
    \/ Next
    \/ Wait

ClockSpec == Init /\ [][ClockNext]_vars

\* every tool call of the four servers
HandlerNext == Next \/ LocalNext

HandlerSpec == (HandlerInit \/ LocalInit) /\ [][HandlerNext]_vars

----------------------------------------------------------------------------
(* Notions the properties are stated in, defined apart from the code *)

\* run i of q lies on a line that starts with '>'
OnHeaderLine(q, i) ==
    \E j \in 1..i :
        /\ q[j].ch = "GT"
        /\ j = 1 \/ q[j - 1].ch \in {"LF", "CR"}
        /\ \A k \in j..i : q[k].ch \notin {"LF", "CR"}

\* the number of characters of q that are neither whitespace nor part of a
\* FASTA header line
RECURSIVE ResiduesUpTo(_, _)
ResiduesUpTo(q, i) ==
    IF i = 0 THEN 0
    ELSE ResiduesUpTo(q, i - 1)
         + (IF q[i].ch \in {"LF", "CR", "SP", "TAB"} \/ OnHeaderLine(q, i)
            THEN 0 ELSE q[i].n)

Residues(q) == ResiduesUpTo(q, Len(q))

InAttempt == pc \in {"await_submit", "poll_sleep", "await_poll", "await_result"}

BeforeAnyRequest == pc \in {"call", "loop", "attempt", "done"}

----------------------------------------------------------------------------
(* Properties *)

\* C1: a call whose query, with FASTA header lines and whitespace removed,
\* has fewer than 10 characters returns the "too short" text, and no HTTP
\* request (submit, poll, fetch) is ever issued for it.
C1_ShortQueryNoRequest ==
    (args.hasQuery /\ Residues(args.query) < 10) =>
        /\ issued = {}
        /\ inflight = {}
        /\ nSubmits = 0
        /\ BeforeAnyRequest
        /\ pc = "done" => result.kind = "tooShort"

\* C1 witness: a query of 10 or more raw characters that is too short once
\* its header line is removed has been rejected.
C1_Witness ==
    /\ pc = "done"
    /\ args.hasQuery
    /\ StrLen(args.query) >= 10
    /\ Residues(args.query) < 10
    /\ result.kind = "tooShort"

\* C2: when every submission of the call fails, runOnlineBlastWithRetry has
\* made exactly 3 submissions, waited 2000 ms and then 4000 ms between them,
\* and returns the "failed after 3 attempts" text.
C2_ThreeAttemptsThenFinal ==
    (server = "stable" /\ pc = "done" /\ nSubmits > 0 /\ submitFails = nSubmits) =>
        /\ nSubmits = 3
        /\ delays = <<2000, 4000>>
        /\ result.kind = "final"

\* C2 witness: three submissions, all failed, and the call is over.
C2_Witness ==
    /\ server = "stable"
    /\ pc = "done"
    /\ submitFails = 3
    /\ nSubmits = 3

RecognisedStatus == {"Status=READY", "Status=FAILED", "Status=WAITING", "Status=UNKNOWN"}

\* C3 (as claimed): a status response is taken as Ready only when it carries
\* the ready status; a response with another recognised status is taken as
\* Pending (as Failed for the failed status, a JobStatus of its own); a
\* response without any recognised status is a poll error, not Pending.
C3_UnrecognisedIsPollError ==
    (lastPoll.verdict # "None" /\ ~lastPoll.err) =>
        /\ lastPoll.verdict = "Ready" => "Status=READY" \in lastPoll.body
        /\ "Status=WAITING" \in lastPoll.body => lastPoll.verdict = "Pending"
        /\ "Status=FAILED" \in lastPoll.body => lastPoll.verdict = "Failed"
        /\ lastPoll.body \cap RecognisedStatus = {} => lastPoll.verdict = "Error"

WellFormed(data) ==
    /\ data.kind = "hits"
    /\ \A i \in 1..Len(data.hits) : data.hits[i].hsp

\* C4 (as claimed): the text made from a well-formed result payload holds as
\* many hit entries as the payload has hit records, capped at max_hits
\* (stated here for the payloads that respect the submitted HITLIST_SIZE).
C4_HitCountCappedAtMaxHits ==
    (/\ pc = "done"
     /\ WellFormed(payload)
     /\ Len(payload.hits) <= submitParams.HITLIST_SIZE) =>
        Len(result.entries) = Min(Len(payload.hits), MaxHitsArg(server, args))

\* C5: the result request of a job is issued only after a status response
\* for that same job, in the same attempt, carried the ready status.
C5_FetchOnlyAfterReady ==
    \A r \in inflight :
        r.kind = "fetch" =>
            /\ r.rid = nSubmits
            /\ lastPoll.rid = r.rid
            /\ ~lastPoll.err
            /\ "Status=READY" \in lastPoll.body

\* C5 witness: the result request of a retried job is in flight.
C5_Witness ==
    /\ attempt = 2
    /\ \E r \in inflight : r.kind = "fetch" /\ r.rid = 2

\* C6: once a status response has carried READY or FAILED for a RID, no
\* status request is issued for that RID again, in this or a later attempt.
C6_NoPollAfterSettled ==
    \A r \in inflight : r.kind = "poll" => r.rid \notin settled

\* C6 witness: a job of an earlier attempt was reported failed and the job
\* of the current attempt is being polled.
C6_Witness ==
    /\ 1 \in settled
    /\ \E r \in inflight : r.kind = "poll" /\ r.rid = 2

\* C7: at most one HTTP request of the call is in flight at any time.
C7_OneRequestInFlight == Cardinality(inflight) <= 1

\* C7 witness: a second status request of a job is in flight.
C7_Witness ==
    /\ attempts = 2
    /\ \E r \in inflight : r.kind = "poll"

PhaseSteps ==
    {<<"Idle", "Submitted">>, <<"Submitted", "Polling">>, <<"Polling", "Ready">>,
     <<"Polling", "Failed">>, <<"Polling", "TimedOut">>, <<"Ready", "Fetched">>}

TerminalPhases == {"Fetched", "Failed", "TimedOut"}

\* C8: within an attempt the job moves only along Idle -> Submitted ->
\* Polling -> {Ready -> Fetched, Failed, TimedOut}; a status request is sent
\* only for a submitted job, a result request only for a ready one, and no
\* request follows Fetched, Failed or TimedOut until a new attempt starts.
C8_AttemptStateMachine ==
    [][/\ phase' # phase =>
            \/ <<phase, phase'>> \in PhaseSteps
            \/ pc = "attempt" /\ phase' = "Idle"
       /\ \A r \in inflight' :
            /\ r.kind = "submit" => phase' = "Idle"
            /\ r.kind = "poll" => phase' = "Polling"
            /\ r.kind = "fetch" => phase' = "Ready"
       /\ (phase \in TerminalPhases /\ pc # "attempt") =>
            /\ inflight' = {}
            /\ issued' = issued
            /\ phase' = phase]_vars

\* C8 witness: the third attempt went all the way to Fetched.
C8_Witness ==
    /\ phase = "Fetched"
    /\ pc = "done"
    /\ attempt = 3

\* C9: after a failure in attempt k < 3 the retry loop waits k * 2000 ms and
\* runs the whole sequence again: attempt k is under way only after k - 1
\* waits, it has submitted a job of its own, only that job is polled and
\* fetched, and the final error is returned only after 3 attempts.
C9_RetryFromSubmission ==
    server = "stable" =>
        /\ \A i \in 1..Len(delays) : delays[i] = i * 2000
        /\ pc = "backoff" => attempt < 3 /\ Len(delays) = attempt /\ inflight = {}
        /\ InAttempt => attempt <= 3 /\ Len(delays) = attempt - 1 /\ nSubmits = attempt
        /\ \A r \in inflight : r.kind \in {"poll", "fetch"} => r.rid = nSubmits
        /\ (pc = "done" /\ result.kind = "final") =>
              /\ Len(delays) = 2
              /\ args.hasQuery => nSubmits = 3
        /\ pc = "done" => (result.kind = "final") = (attempt = 4)
        /\ (pc = "done" /\ result.kind \notin {"final", "tooShort", "tooLong"}) =>
              phase = "Fetched"

\* C9 witness: the third attempt polls its own job after the second attempt
\* failed in the poll step (a timeout).
C9_Witness ==
    /\ server = "stable"
    /\ attempt = 3
    /\ pc = "await_poll"
    /\ lastError = "BLAST job timed out"
    /\ delays = <<2000, 4000>>

\* C10: a query that fails validation (too short, or too long) makes
\* runOnlineBlastWithRetry return in its first attempt: no second attempt,
\* no backoff wait, no error caught.
C10_ValidationNotRetried ==
    (/\ server = "stable"
     /\ args.hasQuery
     /\ Residues(args.query) < 10 \/ Residues(args.query) > 2000) =>
        /\ attempt <= 1
        /\ delays = <<>>
        /\ lastError = ""
        /\ pc # "backoff"
        /\ pc = "done" => result.kind \in {"tooShort", "tooLong"}

\* C10 witness: a query that is too long has been rejected in attempt 1.
C10_Witness ==
    /\ server = "stable"
    /\ pc = "done"
    /\ attempt = 1
    /\ result.kind = "tooLong"

\* the result payload is malformed: the body cannot be parsed, or it is
\* parsed and lacks the report structure
Malformed(data) == data.kind \in {"unparseable", "null", "noReport"}

\* C11 (as claimed): a malformed result payload of a ready job is never
\* retried: once the code has read such a payload the call is over with an
\* error text, no backoff wait is set and no new job is submitted.
C11_MalformedResultNotRetried ==
    Malformed(payload) =>
        /\ pc = "done"
        /\ result.kind \in {"formatError", "invalidFormat", "searchFailed"}

\* C12: when all attempts are used up, the text runOnlineBlastWithRetry
\* returns quotes the message of the error that ended the last (third)
\* attempt, whatever the earlier attempts failed with.
C12_FinalErrorIsLastFailure ==
    (pc = "done" /\ result.kind = "final") =>
        /\ attempt = maxRetries + 1
        /\ result.err = thrown
        /\ result.err # ""

\* C12 witness: two attempts failed in the submit step, the third timed out
\* in the poll loop, and the final text quotes the timeout.
C12_Witness ==
    /\ pc = "done"
    /\ result.kind = "final"
    /\ submitFails = 2
    /\ phase = "TimedOut"
    /\ result.err = "BLAST job timed out"

\* C13 (as claimed): after a transport error on a status request the same
\* job is polled again (the handler is back in its poll wait or has sent
\* the next status request), and the error ends the attempt only as a
\* timeout, once the poll ceiling is reached.
C13_PollErrorPolledAgain ==
    (lastPoll.verdict # "None" /\ lastPoll.err) =>
        \/ pc \in {"poll_sleep", "await_poll"} /\ rid = lastPoll.rid
        \/ phase = "TimedOut" /\ attempts >= MaxAttempts(server)

\* the submit response of this attempt was not a success: a transport error,
\* an error status, or a body without "RID = ..."
SubmitNotAccepted == lastSubmit.seen /\ (lastSubmit.err \/ ~lastSubmit.ok \/ ~lastSubmit.hasRid)

\* C14 (as claimed): when the submit response is not successful or holds no
\* RID, the attempt ends there with a submission error: no status request
\* and no result request is sent in that attempt.
C14_NoPollAfterFailedSubmit ==
    SubmitNotAccepted =>
        /\ pc \in {"backoff", "loop", "done"}
        /\ inflight = {}
        /\ phase = "Idle"
        /\ pc = "done" => result.kind \in {"final", "submitFailed", "searchFailed"}

\* call c has a temporary query file in use: written and not yet cleaned up
HoldsFile(c) == calls[c].pc \in {"blast", "list"}

\* C17 (as claimed): two local BLAST calls under way at the same time never
\* use the same temporary query file: the file of a call holds what that
\* call wrote until the call removes it, and the BLAST process of a call
\* reads the query of that call.
C17_TempFilesIsolated ==
    /\ \A c, d \in Calls :
           (c # d /\ HoldsFile(c) /\ HoldsFile(d)) =>
               calls[c].queryFile # calls[d].queryFile
    /\ \A c \in Calls :
           /\ HoldsFile(c) => files[calls[c].queryFile] = c
           /\ calls[c].readOf \in {0, c}

\* the text a finished BLAST call returns, by what became of its command
ExpectedText(srv, event) ==
    IF event.ev = "error" THEN Text("notFound")
    ELSE IF event.ev = "timeout" THEN ErrText("handlerError", "timed out")
    ELSE IF event.code = 0
         THEN IF event.out = "" THEN Text("noHits") ELSE Text("hits")
         ELSE IF event.msg = "Database" /\ srv = "hpc" THEN Text("dbNotFound")
              ELSE IF event.msg = "" THEN ErrText("handlerError", "Command failed with code")
              ELSE ErrText("handlerError", event.msg)

\* C18: when a local BLAST call that wrote its query file is over, whatever
\* its outcome (hits, no hits, command not found, database not found,
\* nonzero exit, timeout), the removal of the file has been attempted, and
\* the text returned is the one that outcome calls for whether the removal
\* succeeded or failed.
C18_CleanupAttemptedOutcomeKept ==
    \A c \in Calls :
        (calls[c].wrote /\ calls[c].pc \notin {"blast", "list"}) =>
            /\ calls[c].pc = "done"
            /\ calls[c].cleanup \in {"removed", "failed"}
            /\ calls[c].result = ExpectedText(server, calls[c].event)

\* C18 witness: a call ended with hits although its query file could not
\* be removed, and another ended in a timeout with the file removed.
C18_Witness ==
    \E c, d \in Calls :
        /\ calls[c].pc = "done" /\ calls[c].wrote
        /\ calls[c].cleanup = "failed" /\ calls[c].result.kind = "hits"
        /\ calls[d].pc = "done" /\ calls[d].wrote
        /\ calls[d].cleanup = "removed" /\ calls[d].event.ev = "timeout"

\* the texts that report an error together with its message
ErrorTexts == {"handlerError", "searchFailed", "final", "auxFailed"}

\* the command of a local BLAST call failed
CommandFailed(event) == event.ev \in {"error", "timeout"} \/ event.code # 0

C16_CallsIndependent ==
    [][/\ \A d \in Calls : jobs'[d] # jobs[d] =>
             \A c \in Calls \ {d} : ~StepOf(c)
       /\ \A c, d \in Calls :
             (c # d /\ jobs'[c].rid # 0) => jobs'[c].rid # jobs'[d].rid]_vars

\* C16 witness: two calls poll at the same time, one in its second attempt
\* on its first poll, the other in its first attempt on its second poll.
C16_Witness ==
    \E c, d \in Calls :
        /\ jobs[c].pc = "await_poll" /\ jobs[c].attempt = 2 /\ jobs[c].attempts = 1
        /\ jobs[d].pc = "await_poll" /\ jobs[d].attempt = 1 /\ jobs[d].attempts = 2
        /\ jobs[c].rid # jobs[d].rid

\* C19: once the caller has abandoned the call (its request is cancelled or
\* the server is told to shut down) the request in flight is cancelled, and
\* no poll request, submission or fetch is issued for the call afterwards.
C19_NoRequestAfterAbandon ==
    [][/\ (cancelled = "no" /\ cancelled' # "no") => inflight' = {}
       /\ cancelled # "no" => inflight' \subseteq inflight]_vars

\* the elapsed-time ceiling of the poll loop the code states
PollCeiling(srv) == IF srv = "stable" THEN StablePollCeiling ELSE OnlinePollCeiling

\* C20: the poll loop has a ceiling on elapsed time whatever the number of
\* polls and however long the status requests take: no status request is
\* issued, and none is waited for, after the ceiling has been reached.
C20_PollLoopWallClockCeiling ==
    pc = "await_poll" => elapsed - waited <= PollCeiling(server)

\* the interval the servers are to wait before a status request (ms)
CooperativeWait(srv) == IF srv = "stable" THEN 5000 ELSE 10000

\* a status request is sent in this step
PollIssued == \E r \in inflight' \ inflight : r.kind = "poll"

\* C21: polling is cooperative: a status request is sent only when the timer
\* of the poll interval has fired, the first request after the submission
\* included, so that the n-th status request of a job is sent n intervals
\* after the poll loop was entered and never right after another one.
C21_PollPrecededByWait ==
    [][/\ PollIssued =>
             /\ pc = "poll_sleep"
             /\ elapsed' = elapsed + CooperativeWait(server)
       /\ pc' = "await_poll" =>
             /\ attempts' >= 1
             /\ elapsed' = attempts' * CooperativeWait(server)]_vars

\* C21 witness: the job of a second attempt gets its first status request,
\* one interval after its poll loop was entered.
C21_Witness ==
    /\ server = "stable"
    /\ attempt = 2
    /\ attempts = 1
    /\ elapsed = 5000
    /\ \E r \in inflight : r.kind = "poll" /\ r.rid = 2

\* the three lines of a hit entry that name the hit, its score and its E-value
HitFacts == {"ID", "Score", "E-value"}

\* C22: end to end in the stable server, for a valid query with max_hits = 5:
\* as long as the polls report Pending one more poll is sent (k Pending
\* responses, k + 1 polls); when a poll reports Ready exactly one result
\* request follows it and nothing else; the text returned holds at most 5
\* hit entries, each with an identifier, a score and an E-value.
C22_EndToEnd ==
    (/\ server = "stable"
     /\ args.hasQuery
     /\ Residues(args.query) >= 10 /\ Residues(args.query) <= 2000
     /\ MaxHitsArg(server, args) = 5) =>
        /\ pc = "poll_sleep" => attempts = pendings /\ inflight = {}
        /\ pc = "await_poll" =>
              attempts = pendings + 1 /\ inflight = {Request("poll", rid)}
        /\ pc = "await_result" =>
              /\ "Status=READY" \in lastPoll.body
              /\ attempts = pendings + 1
              /\ pendings < StableMaxAttempts
              /\ inflight = {Request("fetch", rid)}
        /\ (pc = "done" /\ result.kind = "hits") =>
              /\ phase = "Fetched"
              /\ inflight = {}
              /\ Len(result.entries) <= 5
              /\ \A i \in 1..Len(result.entries) :
                    HitFacts \subseteq result.entries[i].lines

\* C22 witness: two polls reported Pending, the third Ready, and the call
\* returned 5 hit entries out of a payload of 6 hits.
C22_Witness ==
    /\ server = "stable"
    /\ MaxHitsArg(server, args) = 5
    /\ pc = "done"
    /\ attempt = 1
    /\ pendings = 2
    /\ Len(payload.hits) = 6
    /\ Len(result.entries) = 5

\* the attempt ended because the job was reported failed or the poll ceiling
\* was reached
EndedBadly == server = "stable" /\ phase \in {"Failed", "TimedOut"}

\* C23: after an attempt of the stable server has ended in Failed or
\* TimedOut the retry loop is on its way to a new attempt (in its backoff
\* wait or at the loop test) unless that was the third attempt, in which
\* case the call returns the final error text; the attempt never yields a
\* success result, and in the end either a new attempt has started from
\* Idle or the final error has been reported.
C23_FailedOrTimedOutRetriedOrFinal ==
    /\ [](EndedBadly =>
            /\ inflight = {}
            /\ \/ pc \in {"backoff", "loop", "attempt"} /\ result = NoResult
               \/ /\ pc = "done"
                  /\ attempt = 4
                  /\ result.kind = "final"
                  /\ result.err \in {"BLAST job failed on server", "BLAST job timed out"}
            /\ pc = "backoff" => attempt < 3
            /\ pc = "attempt" => attempt \in {2, 3})
    /\ (EndedBadly ~> (phase = "Idle" \/ (pc = "done" /\ result.kind = "final")))

\* C23 witness: the third attempt ran into the poll ceiling and the call has
\* returned the final error text.
C23_Witness ==
    /\ server = "stable"
    /\ phase = "TimedOut"
    /\ pc = "done"
    /\ result = ErrText("final", "BLAST job timed out")
    /\ lastPoll.verdict = "Pending"

\* C24: the job request does not change within a call: every submission a
\* retry of the stable server makes carries the program, the database, the
\* cleaned query and the hit-list size of the submission before it, hence of
\* the first one.
C24_RequestImmutable ==
    [][(server = "stable" /\ nSubmits >= 1 /\ nSubmits' = nSubmits + 1) =>
            submitParams' = submitParams]_vars

\* C24 witness: the third submission of a blastp call with a capped
\* hit-list size is on its way.
C24_Witness ==
    /\ server = "stable"
    /\ nSubmits = 3
    /\ pc = "await_submit"
    /\ submitParams.PROGRAM = "blastp"
    /\ submitParams.HITLIST_SIZE = 10

\* a result request is sent in this step
FetchIssued == \E r \in inflight' \ inflight : r.kind = "fetch"

\* C25: a blast_online call whose requests all complete or fail ends with a
\* response, and on the way it makes at most 3 submissions, at most 20 polls
\* in an attempt (so at most 60 in all), at most one result request in an
\* attempt (it is sent when the poll loop is left, and the attempt ends with
\* its response) and at most 2 backoff waits.
C25_CallTerminatesWithinBounds ==
    /\ (server = "stable" => <>(pc = "done" /\ result.kind # ""))
    /\ [](server = "stable" =>
            /\ nSubmits <= 3
            /\ attempts <= 20
            /\ Len(delays) <= 2
            /\ Cardinality({r \in inflight : r.kind = "fetch"}) <= 1
            /\ pc = "await_result" => inflight = {Request("fetch", rid)})
    /\ [][(server = "stable" /\ FetchIssued) =>
              pc = "await_poll" /\ pc' = "await_result"]_vars
    /\ [][(server = "stable" /\ pc = "await_result") =>
              pc' \in {"done", "backoff", "loop"} /\ inflight' = {}]_vars

\* C25 witness: the call made 3 submissions and 2 backoff waits, its third
\* job was ready at the 20th poll, and the call has returned the hits.
C25_Witness ==
    /\ server = "stable"
    /\ pc = "done"
    /\ nSubmits = 3
    /\ Len(delays) = 2
    /\ pendings = 19
    /\ result.kind = "hits"

\* the number of polls an attempt is permitted
PermittedPolls(srv) == IF srv = "stable" THEN 20 ELSE 30

\* the status response that arrives in this step reports neither Ready nor
\* Failed
ReportsNeither ==
    ~lastPoll'.err /\ lastPoll'.body \cap {"Status=READY", "Status=FAILED"} = {}

\* C26: an attempt times out exactly when the last permitted poll (the 20th
\* in the stable server, the 30th in the online server), like all polls
\* before it, reported neither Ready nor Failed; a Ready reported by the
\* last permitted poll is followed by the result request, and the result
\* request is never sent without a Ready.
C26_TimeoutExactlyAtCeiling ==
    [][pc = "await_poll" =>
          /\ phase' = "TimedOut" <=>
                /\ attempts = PermittedPolls(server)
                /\ pendings = attempts - 1
                /\ ReportsNeither
          /\ (~lastPoll'.err /\ "Status=READY" \in lastPoll'.body) =>
                /\ pc' = "await_result"
                /\ inflight' = {Request("fetch", rid)}
          /\ FetchIssued => "Status=READY" \in lastPoll'.body]_vars

\* C26 witness: the 30th poll of the online server reported Ready and the
\* result request is on its way.
C26_Witness ==
    /\ server = "online"
    /\ attempts = 30
    /\ pc = "await_result"
    /\ "Status=READY" \in lastPoll.body

\* the promise of runCommand is settled
Settled(p) == p.outcome.k \in {"resolve", "reject"}

\* C27: runCommand settles once, by the first of its events: it resolves,
\* with the output collected, only when the child closes with exit code 0
\* before anything else happened; a close with another exit code (null
\* included), an 'error' event and the timeout reject it; the timeout kills
\* the child; once the child has closed or errored the timer is no longer
\* set, so no kill and no timeout error come after that.
C27_RunCommandSettlesOnce ==
    /\ [](/\ (proc.child = "closed" \/ proc.errored \/ proc.timeout = "fired") =>
                Settled(proc)
          /\ proc.outcome.k = "resolve" =>
                /\ proc.child = "closed" /\ proc.code = 0
                /\ proc.outcome.stdout = proc.stdout
                /\ proc.outcome.stderr = proc.stderr
          /\ proc.outcome.msg = "timed out" => proc.timeout = "fired"
          /\ proc.timeout = "fired" <=> proc.kills = 1
          /\ proc.kills <= 1
          /\ (proc.child = "closed" \/ proc.errored) => proc.timeout # "armed")
    /\ [][/\ Settled(proc) => proc'.outcome = proc.outcome
          /\ (~Settled(proc) /\ Settled(proc')) =>
                /\ (proc.timeout = "armed" /\ proc'.timeout = "fired") =>
                      proc'.outcome.k = "reject" /\ proc'.outcome.msg = "timed out"
                /\ (~proc.errored /\ proc'.errored) =>
                      proc'.outcome.k = "reject" /\ proc'.outcome.msg = "error"
                /\ proc'.child = "closed" =>
                      (proc'.outcome.k = "resolve") = (proc'.code = 0)
          /\ proc'.kills > proc.kills =>
                proc.child = "running" /\ ~proc.errored]_vars

\* C27 witness: the timer went off first, the child was killed and closed
\* with a null exit code after that; the promise stays rejected with the
\* timeout error.
C27_Witness ==
    /\ proc.timeout = "fired"
    /\ proc.kills = 1
    /\ proc.child = "closed" /\ proc.code = -1
    /\ proc.stdout = 1
    /\ proc.outcome = Rejected("timed out")

\* the call of the online server is over with the text t
EndsWith(t) == pc = "done" /\ result = t

\* C28: the online server submits at most one job in a call and never
\* retries (no second attempt, no backoff wait); a failed submit request, a
\* submit response without a RID, a failed status request, a Failed status,
\* the poll ceiling and a failed result request (the request fails or its
\* body cannot be parsed) each end the call with the error text for it.
C28_OnlineServerNeverRetries ==
    server = "online" =>
        /\ nSubmits <= 1
        /\ attempt <= 1
        /\ delays = <<>>
        /\ lastError = ""
        /\ pc \notin {"loop", "backoff"}
        /\ (lastSubmit.seen /\ lastSubmit.err) =>
              EndsWith(ErrText("searchFailed", "network:submit"))
        /\ (lastSubmit.seen /\ ~lastSubmit.err /\ ~lastSubmit.hasRid) =>
              EndsWith(Text("submitFailed"))
        /\ lastPoll.err => EndsWith(ErrText("searchFailed", "network:poll"))
        /\ (~lastPoll.err /\ "Status=FAILED" \in lastPoll.body
               /\ "Status=READY" \notin lastPoll.body) => EndsWith(Text("jobFailed"))
        /\ phase = "TimedOut" => EndsWith(Text("timedOut"))
        /\ thrown = "network:fetch" => EndsWith(ErrText("searchFailed", "network:fetch"))
        /\ payload.kind = "unparseable" =>
              EndsWith(ErrText("searchFailed", "invalid json"))

\* C28 witness: the only job of a call of the online server ran into the
\* poll ceiling and the call returned the timeout text.
C28_Witness ==
    /\ server = "online"
    /\ nSubmits = 1
    /\ phase = "TimedOut"
    /\ EndsWith(Text("timedOut"))

\* the stable server was called with a query of n residues, lo <= n <= hi
ResiduesWithin(lo, hi) ==
    /\ server = "stable"
    /\ args.given
    /\ args.hasQuery
    /\ Residues(args.query) >= lo
    /\ Residues(args.query) <= hi

\* C29: in the stable server a query of more than 2000 residues is rejected
\* with the "too long" text before anything is sent (no HTTP request, no
\* submission, no second attempt, no backoff wait), and a query of 10 to
\* 2000 residues passes the checks: the attempt issues its submit request.
C29_TooLongRejectedBeforeSubmission ==
    /\ []((ResiduesWithin(10, Residues(args.query)) /\ Residues(args.query) > 2000) =>
            /\ issued = {}
            /\ inflight = {}
            /\ nSubmits = 0
            /\ attempt <= 1
            /\ delays = <<>>
            /\ lastError = ""
            /\ pc \notin {"backoff", "await_submit"}
            /\ pc = "done" => result = Text("tooLong"))
    /\ [][(ResiduesWithin(10, 2000) /\ pc = "attempt") =>
            /\ pc' = "await_submit"
            /\ nSubmits' = nSubmits + 1
            /\ "submit" \in issued'
            /\ inflight' # {}]_vars

\* C29 witness: a query of exactly 2000 residues has been submitted in the
\* first attempt.
C29_Witness ==
    /\ ResiduesWithin(2000, 2000)
    /\ attempt = 1
    /\ pc = "await_submit"
    /\ nSubmits = 1

\* the number of attempts of the call that have failed so far
FailedAttempts == IF pc = "backoff" THEN attempt ELSE attempt - 1

\* runOnlineBlast has been called and has not returned or thrown yet
AttemptRunning == pc = "attempt" \/ InAttempt

\* C30: runOnlineBlastWithRetry waits only between two attempts. A backoff
\* delay is started only by the failure of attempt 1 or 2; the failure of
\* attempt 3 starts none and the next step of the loop is the return of the
\* final error; so the waits number one less than the failed attempts when
\* all three have failed, and as many as the failed attempts before that.
C30_NoWaitAfterLastAttempt ==
    /\ [](server = "stable" =>
            /\ pc = "backoff" => attempt < 3
            /\ (attempt >= 1 /\ FailedAttempts < 3) => Len(delays) = FailedAttempts
            /\ (attempt >= 1 /\ FailedAttempts = 3) => Len(delays) = 3 - 1
            /\ (pc = "done" /\ result.kind = "final") =>
                  FailedAttempts = 3 /\ Len(delays) = 2)
    /\ [][server = "stable" =>
            /\ delays' # delays =>
                  /\ AttemptRunning
                  /\ attempt < 3
                  /\ pc' = "backoff"
                  /\ Len(delays') = Len(delays) + 1
            /\ (AttemptRunning /\ attempt = 3 /\ thrown' # thrown) =>
                  /\ delays' = delays
                  /\ pc' = "loop"
                  /\ attempt' = 4
            /\ (pc = "loop" /\ attempt = 4) =>
                  /\ pc' = "done"
                  /\ result' = ErrText("final", lastError)
                  /\ delays' = delays]_vars

\* C30 witness: the third attempt has just failed; two waits were made and
\* the loop is about to return the final error.
C30_Witness ==
    /\ server = "stable"
    /\ pc = "loop"
    /\ attempt = 4
    /\ nSubmits = 3
    /\ delays = <<2000, 4000>>

====
